---- MODULE Spec2Model ----
(***************************************************************************)
(* Shipment Presence Checker (rieck_shipments_check.py).                   *)
(*                                                                         *)
(* Strings are sequences of one-character strings.  Python values that may *)
(* be None / NaN are tagged records, so that a value and its absence can   *)
(* be compared.  The Streamlit script is re-executed from the top on every *)
(* widget interaction; one action models one such execution.               *)
(***************************************************************************)
EXTENDS Integers, Sequences, FiniteSets, TLC

VARIABLES
    \* --- extract_shipment_from_filename applied to one filename
    filename, ship,
    \* --- clean_excel_shipment applied to one cell value
    val, cleaned,
    \* --- the two processed-file readers applied to one list of names
    entry_names, zip_shipments, files_shipments,
    \* --- widget values of the page (script lines 135-169)
    excel_file, mode, uploaded_files, uploaded_zip, show_preview,
    \* --- what the last execution of the script computed and rendered
    run, message, valid_shipments, invalid_rows, folder_set, result_df,
    missing_df, metrics, previews, downloads, readers_called,
    \* --- how many executions in a row ran the check on the same widget
    \*     values (counted up to MaxRunsCounted; read by no operation)
    runs_on_input

fnVars     == <<filename, ship>>
cellVars   == <<val, cleaned>>
readerVars == <<entry_names, zip_shipments, files_shipments>>
widgetVars == <<excel_file, mode, uploaded_files, uploaded_zip, show_preview>>
outputVars == <<run, message, valid_shipments, invalid_rows, folder_set,
                result_df, missing_df, metrics, previews, downloads,
                readers_called, runs_on_input>>
vars == <<fnVars, cellVars, readerVars, widgetVars, outputVars>>

----------------------------------------------------------------------------
(* Python values *)

None    == [tag |-> "None"]
NaN     == [tag |-> "nan"]
Pending == [tag |-> "pending"]
Str(s)  == [tag |-> "str", s |-> s]
IntVal(n) == [tag |-> "int", n |-> n]
List(l) == [tag |-> "list", items |-> l]
Set(S)  == [tag |-> "set", items |-> S]

\* the characters of re's \d and not of \D (the ASCII ones; for str patterns
\* Python also counts the other Unicode decimal digits)
Digit == {"0", "1", "2", "3", "4", "5", "6", "7", "8", "9"}
IsDigit(c) == c \in Digit

DigitChar(d) == <<"0", "1", "2", "3", "4", "5", "6", "7", "8", "9">>[d + 1]

RECURSIVE nat_str(_)
nat_str(n) ==
    IF n < 10 THEN <<DigitChar(n)>>
    ELSE Append(nat_str(n \div 10), DigitChar(n % 10))

\* str(val) for the kinds of cell value modelled
py_str(v) ==
    CASE v.tag = "str" -> v.s
      [] v.tag = "int" -> IF v.n < 0 THEN <<"-">> \o nat_str(0 - v.n)
                          ELSE nat_str(v.n)

Rep(c, n) == [i \in 1..n |-> c]

----------------------------------------------------------------------------
(* Helpers, lines 21-40 *)

FilenameDigits == 8
CellDigits == 8

\* os.path.basename (posixpath): everything after the last "/"
RECURSIVE rfind_sep(_, _)
rfind_sep(p, i) ==
    IF i = 0 THEN 0
    ELSE IF p[i] = "/" THEN i ELSE rfind_sep(p, i - 1)

basename(p) == SubSeq(p, rfind_sep(p, Len(p)) + 1, Len(p))

\* re.match(r"^(\d{8})", base): TRUE iff the pattern matches at position 0
re_match_8_digits(base) ==
    /\ Len(base) >= FilenameDigits
    /\ \A i \in 1..FilenameDigits : IsDigit(base[i])

\* a mutant: the digits may start at position 1 (a search instead of an
\* anchored match)
extract_unanchored(fname) ==
    LET base == basename(fname)
        at(k) == /\ Len(base) >= k + FilenameDigits - 1
                 /\ \A i \in k..(k + FilenameDigits - 1) : IsDigit(base[i])
    IN  IF at(1) THEN Str(SubSeq(base, 1, FilenameDigits))
        ELSE IF at(2) THEN Str(SubSeq(base, 2, FilenameDigits + 1))
        ELSE None

extract_shipment_from_filename(fname) ==
    LET base == basename(fname)
    IN  IF re_match_8_digits(base) THEN Str(SubSeq(base, 1, FilenameDigits))
        ELSE None

\* re.sub(r"\D", "", s): drop every character that is not a digit
RECURSIVE re_sub_non_digits(_)
re_sub_non_digits(s) ==
    IF s = <<>> THEN <<>>
    ELSE LET rest == re_sub_non_digits(Tail(s))
         IN  IF IsDigit(Head(s)) THEN <<Head(s)>> \o rest ELSE rest

\* pd.isna(val) for a scalar
isna(v) == v.tag \in {"nan", "None"}

\* a mutant: str.strip of non-digits at the two ends only
RECURSIVE strip_non_digits(_)
strip_non_digits(s) ==
    IF s = <<>> THEN <<>>
    ELSE IF ~IsDigit(Head(s)) THEN strip_non_digits(Tail(s))
    ELSE IF ~IsDigit(s[Len(s)]) THEN strip_non_digits(SubSeq(s, 1, Len(s) - 1))
    ELSE s

clean_edges_only(v) ==
    IF isna(v) THEN None
    ELSE LET digits == strip_non_digits(py_str(v))
         IN  IF Len(digits) = CellDigits THEN Str(digits) ELSE None

clean_excel_shipment(v) ==
    IF isna(v) THEN None
    ELSE LET digits == re_sub_non_digits(py_str(v))
         IN  IF Len(digits) = CellDigits THEN Str(digits) ELSE None

----------------------------------------------------------------------------
(* Source readers, lines 43-101 *)

\* a mutant: drop_duplicates(keep="last")
RECURSIVE drop_duplicates_keep_last(_)
drop_duplicates_keep_last(s) ==
    IF s = <<>> THEN <<>>
    ELSE LET back == drop_duplicates_keep_last(Tail(s))
         IN  IF \E i \in 1..Len(back) : back[i] = Head(s) THEN back
             ELSE <<Head(s)>> \o back

RECURSIVE drop_duplicates(_)
drop_duplicates(s) ==
    IF s = <<>> THEN <<>>
    ELSE LET front == drop_duplicates(SubSeq(s, 1, Len(s) - 1))
             last  == s[Len(s)]
         IN  IF \E i \in 1..Len(front) : front[i] = last THEN front
             ELSE Append(front, last)

\* df["Shipment No."].map(clean_excel_shipment)
map_clean(cells) == [i \in 1..Len(cells) |-> clean_excel_shipment(cells[i])]

\* series.dropna().drop_duplicates().astype(str)
valid_of(series) ==
    LET kept == SelectSeq(series, LAMBDA x : ~isna(x))
    IN  drop_duplicates([i \in 1..Len(kept) |-> kept[i].s])

\* a mutant: the invalid rows are those that lost a character in cleaning
RECURSIVE invalid_if_changed(_, _, _)
invalid_if_changed(cells, series, i) ==
    IF i > Len(cells) THEN <<>>
    ELSE LET rest == invalid_if_changed(cells, series, i + 1)
         IN  IF isna(series[i]) \/ series[i] # cells[i]
             THEN <<[index |-> i, ShipmentNo |-> cells[i]]>> \o rest
             ELSE rest

\* df[series.isna()][["Shipment No."]]: the rows, with their index, whose
\* cleaned cell is missing
RECURSIVE invalid_of(_, _, _)
invalid_of(cells, series, i) ==
    IF i > Len(cells) THEN <<>>
    ELSE LET rest == invalid_of(cells, series, i + 1)
         IN  IF isna(series[i])
             THEN <<[index |-> i, ShipmentNo |-> cells[i]]>> \o rest
             ELSE rest

\* An uploaded spreadsheet: whether pd.read_excel can decode it, whether
\* the frame has the column "Shipment No.", and that column's cells
\* (dtype=str: a string, or NaN for an empty cell).
ExcelFile(readable, has_column, cells) ==
    [tag |-> "excel", readable |-> readable, has_column |-> has_column,
     cells |-> cells]

\* Returns (valid, invalid), or the st.error after which st.stop() ends the
\* script.
read_excel_shipment_column(f) ==
    IF ~f.readable
    THEN [stop |-> "Failed to read Excel", valid |-> <<>>, invalid |-> <<>>]
    ELSE IF ~f.has_column
    THEN [stop |-> "Excel must contain a column named 'Shipment No.'",
          valid |-> <<>>, invalid |-> <<>>]
    ELSE LET series == map_clean(f.cells)
         IN  [stop |-> "", valid |-> valid_of(series),
              invalid |-> invalid_of(f.cells, series, 1)]

\* for f in files: ship = extract(f.name); if ship: shipments.add(ship)
RECURSIVE extract_from_uploaded_files(_)
extract_from_uploaded_files(files) ==
    IF files = <<>> THEN {}
    ELSE LET shipments == extract_from_uploaded_files(SubSeq(files, 1, Len(files) - 1))
             found     == extract_shipment_from_filename(files[Len(files)])
         IN  IF found # None /\ found.s # <<>> THEN shipments \cup {found.s}
             ELSE shipments

\* ZipInfo.is_dir(): the entry's name ends with "/"
is_dir(name) == name # <<>> /\ name[Len(name)] = "/"

\* An uploaded archive: whether zipfile.ZipFile can open it, and the names
\* of its entries in infolist() order.
ZipFile(ok, names) == [tag |-> "zip", ok |-> ok, names |-> names]

\* a mutant: entries inside a folder of the archive are skipped
RECURSIVE scan_top_level_only(_)
scan_top_level_only(names) ==
    IF names = <<>> THEN {}
    ELSE LET shipments == scan_top_level_only(SubSeq(names, 1, Len(names) - 1))
             info      == names[Len(names)]
         IN  IF \E i \in 1..Len(info) : info[i] = "/" THEN shipments
             ELSE LET found == extract_shipment_from_filename(basename(info))
                  IN  IF found # None /\ found.s # <<>>
                      THEN shipments \cup {found.s}
                      ELSE shipments

RECURSIVE scan_entries(_)
scan_entries(names) ==
    IF names = <<>> THEN {}
    ELSE LET shipments == scan_entries(SubSeq(names, 1, Len(names) - 1))
             info      == names[Len(names)]
         IN  IF is_dir(info) THEN shipments
             ELSE LET found == extract_shipment_from_filename(basename(info))
                  IN  IF found # None /\ found.s # <<>>
                      THEN shipments \cup {found.s}
                      ELSE shipments

extract_from_zip(z) ==
    IF ~z.ok THEN [stop |-> "Failed to read ZIP", shipments |-> {}]
    ELSE [stop |-> "", shipments |-> scan_entries(z.names)]

----------------------------------------------------------------------------
(* Reconciliation, metrics and exports, lines 185-227 *)

\* ord(c) for the characters that occur in an identifier
ord(c) == CHOOSE n \in 48..57 : DigitChar(n - 48) = c

\* Python's str "<": lexicographic by code point
str_lt(a, b) ==
    \E k \in 1..(Len(b)) :
        /\ \A i \in 1..(k - 1) : i <= Len(a) /\ a[i] = b[i]
        /\ \/ k = Len(a) + 1
           \/ k <= Len(a) /\ ord(a[k]) < ord(b[k])

\* a mutant: list(folder_set) in descending order
RECURSIVE sorted_reverse(_)
sorted_reverse(S) ==
    IF S = {} THEN <<>>
    ELSE LET m == CHOOSE x \in S : \A y \in S : x = y \/ str_lt(y, x)
         IN  <<m>> \o sorted_reverse(S \ {m})

\* sorted(folder_set)
RECURSIVE sorted(_)
sorted(S) ==
    IF S = {} THEN <<>>
    ELSE LET m == CHOOSE x \in S : \A y \in S : x = y \/ str_lt(x, y)
         IN  <<m>> \o sorted(S \ {m})

\* f"{n:,}": decimal digits grouped in threes by commas
RECURSIVE format_thousands(_)
format_thousands(n) ==
    IF n < 1000 THEN nat_str(n)
    ELSE LET low == n % 1000
         IN  format_thousands(n \div 1000) \o <<",">>
               \o <<DigitChar(low \div 100), DigitChar((low \div 10) % 10),
                     DigitChar(low % 10)>>

\* present_mask = valid_shipments.isin(folder_set);
\* result_df = DataFrame({"Shipment No.": ..., "Present": ...})
make_result_df(valid, folder) ==
    [i \in 1..Len(valid) |->
        [ShipmentNo |-> valid[i], Present |-> valid[i] \in folder]]

\* a mutant: the rows that are present are kept instead of the missing ones
select_present(df) ==
    LET rows == SelectSeq(df, LAMBDA r : r.Present)
    IN  [i \in 1..Len(rows) |-> [ShipmentNo |-> rows[i].ShipmentNo]]

\* a mutant: shipments reported missing by the previous execution are
\* remembered and not reported again
missing_not_reported_before(df) ==
    LET rows == SelectSeq(df, LAMBDA r :
                    /\ ~r.Present
                    /\ \A i \in 1..Len(missing_df) :
                           missing_df[i].ShipmentNo # r.ShipmentNo)
    IN  [i \in 1..Len(rows) |-> [ShipmentNo |-> rows[i].ShipmentNo]]

\* result_df[~result_df["Present"]].drop(columns=["Present"]).reset_index(drop=True)
make_missing_df(df) ==
    LET rows == SelectSeq(df, LAMBDA r : ~r.Present)
    IN  [i \in 1..Len(rows) |-> [ShipmentNo |-> rows[i].ShipmentNo]]

\* the three st.metric values
make_metrics(folder, valid, missing) ==
    [folder  |-> format_thousands(Cardinality(folder)),
     excel   |-> format_thousands(Len(valid)),
     missing |-> format_thousands(Len(missing))]

\* df.to_excel(writer, index=False, sheet_name=...): header row and data rows
Sheet(name, header, rows) == [name |-> name, header |-> header, rows |-> rows]

\* df_to_xlsx_bytes(missing_df, "Missing", "missing_shipments.xlsx")
df_to_xlsx_bytes(df, sheet_name, file_name) ==
    [file_name |-> file_name,
     sheets |-> <<Sheet(sheet_name, <<"Shipment No.">>,
                        [i \in 1..Len(df) |-> <<df[i].ShipmentNo>>])>>]

\* the workbook of the "Advanced" expander, lines 216-227
summary_xlsx(df, folder) ==
    LET listing == sorted(folder)
    IN  [file_name |-> "shipment_presence_summary.xlsx",
         sheets |-> <<Sheet("Summary", <<"Shipment No.", "Present">>,
                            [i \in 1..Len(df) |->
                                <<df[i].ShipmentNo, df[i].Present>>]),
                      Sheet("FolderSet", <<"FolderShipments">>,
                            [i \in 1..Len(listing) |-> <<listing[i]>>])>>]

----------------------------------------------------------------------------
(* The page: widgets (lines 135-169) and the run logic (lines 171-227) *)

MULTI == "Upload multiple files"
ZIP   == "Upload a ZIP of the processed folder"

\* disabled= of the "Run check" button, line 168
run_disabled ==
    \/ excel_file = None
    \/ /\ (uploaded_files = None \/ Len(uploaded_files.items) = 0)
       /\ uploaded_zip = None

Msg(kind, text) == [kind |-> kind, text |-> text]

\* a mutant: both readers are run and their sets merged
read_both_sources ==
    LET files == extract_from_uploaded_files(
                     IF uploaded_files = None THEN <<>> ELSE uploaded_files.items)
    IN  IF uploaded_zip # None
        THEN LET z == extract_from_zip(uploaded_zip)
             IN  [stop |-> z.stop, shipments |-> z.shipments \cup files,
                  called |-> {"extract_from_zip", "extract_from_uploaded_files"}]
        ELSE [stop |-> "", shipments |-> files,
              called |-> {"extract_from_uploaded_files"}]

\* lines 179-183: the reader called for the processed files and its result;
\* uploaded_files or [] when no ZIP was given
read_processed ==
    IF uploaded_zip # None
    THEN LET z == extract_from_zip(uploaded_zip)
         IN  [stop |-> z.stop, shipments |-> z.shipments,
              called |-> {"extract_from_zip"}]
    ELSE [stop |-> "",
          shipments |-> extract_from_uploaded_files(
              IF uploaded_files = None THEN <<>> ELSE uploaded_files.items),
          called |-> {"extract_from_uploaded_files"}]

\* lines 198-205: the preview tables
make_previews(missing, invalid) ==
    IF ~show_preview THEN <<>>
    ELSE <<[title |-> "Missing shipments (preview)", table |-> missing]>>
         \o (IF invalid # <<>>
              THEN <<[title |-> "Rows with invalid 'Shipment No.'",
                      table |-> invalid]>>
              ELSE <<>>)

\* lines 185-227: compare, metrics, previews, the two download buttons
reconcile(valid, invalid, folder, called) ==
    LET df      == make_result_df(valid, folder)
        missing == make_missing_df(df)
    IN  [message |-> Msg("success", "Done!"),
         valid_shipments |-> valid, invalid_rows |-> invalid,
         folder_set |-> folder, result_df |-> df, missing_df |-> missing,
         metrics |-> make_metrics(folder, valid, missing),
         previews |-> make_previews(missing, invalid),
         downloads |-> <<df_to_xlsx_bytes(missing, "Missing",
                                          "missing_shipments.xlsx"),
                         summary_xlsx(df, folder)>>,
         readers_called |-> called]

\* a mutant: the message is shown and the script goes on (no st.stop())
message_without_stop(msg, valid, invalid, called) ==
    [reconcile(valid, invalid, {}, called) EXCEPT !.message = msg]

\* st.error / st.warning followed by st.stop(): what the execution leaves
\* rendered when it ends there
halt(msg, valid, invalid, called) ==
    [message |-> msg, valid_shipments |-> valid, invalid_rows |-> invalid,
     folder_set |-> {}, result_df |-> <<>>, missing_df |-> <<>>,
     metrics |-> None, previews |-> <<>>, downloads |-> <<>>,
     readers_called |-> called]

\* lines 172-227: one execution of the script with run = True
run_logic ==
    LET excel   == read_excel_shipment_column(excel_file)
        called1 == {"read_excel_shipment_column"}
    IN  IF excel.stop # ""
        THEN halt(Msg("error", excel.stop), <<>>, <<>>, called1)
        ELSE IF excel.valid = <<>>
        THEN halt(Msg("warning", "No valid 8-digit shipment numbers found"),
                  excel.valid, excel.invalid, called1)
        ELSE LET folder  == read_processed
                 called2 == called1 \cup folder.called
             IN  IF folder.stop # ""
                 THEN halt(Msg("error", folder.stop), excel.valid,
                           excel.invalid, called2)
                 ELSE reconcile(excel.valid, excel.invalid,
                                folder.shipments, called2)

\* an execution with run = False renders the widgets only
NothingRendered ==
    /\ run' = FALSE
    /\ message' = None
    /\ valid_shipments' = <<>>
    /\ invalid_rows' = <<>>
    /\ folder_set' = {}
    /\ result_df' = <<>>
    /\ missing_df' = <<>>
    /\ metrics' = None
    /\ previews' = <<>>
    /\ downloads' = <<>>
    /\ readers_called' = {}
    /\ runs_on_input' = 0

----------------------------------------------------------------------------
(* Bounds and input universes *)

MaxRows == 3
MaxFiles == 2
MaxRunsCounted == 2
MaxHead == 2
MaxDigits == 9
MaxTail == 1
MaxCellLen == 9
MaxEntries == 3

SeqsUpTo(S, n) == UNION {[1..k -> S] : k \in 0..n}

ID1 == Rep("1", 8)
ID2 == Rep("2", 8)
ID3 == Rep("3", 8)

\* cells of the "Shipment No." column
RunCells ==
    {NaN, Str(ID1), Str(<<"1", "-">> \o Rep("1", 7)), Str(ID2),
     Str(Rep("2", 7))}

\* names of processed files
RunNames ==
    {ID2 \o <<"_", "a">>, <<"d", "/">> \o ID3, <<"b", "a", "d">>}

\* The files offered to the Excel uploader: nothing, an undecodable file, a
\* table without the column, a table with the column and no rows, or the
\* current table with one more row.
ExcelFiles ==
    {None, ExcelFile(FALSE, FALSE, <<>>), ExcelFile(TRUE, FALSE, <<>>),
     ExcelFile(TRUE, TRUE, <<>>)}
    \cup (IF excel_file # None /\ excel_file.has_column
             /\ Len(excel_file.cells) < MaxRows
          THEN {ExcelFile(TRUE, TRUE, Append(excel_file.cells, c)) :
                    c \in RunCells}
          ELSE {})

\* The selections offered to the multi-file uploader: none, or the current
\* selection with one more file.
FileSelections ==
    {<<>>}
    \cup (IF uploaded_files # None /\ Len(uploaded_files.items) < MaxFiles
          THEN {Append(uploaded_files.items, n) : n \in RunNames}
          ELSE {})

\* The archives offered to the ZIP uploader: nothing, an undecodable file,
\* an empty archive, or the current archive with one more entry.
ZipFiles ==
    {None, ZipFile(FALSE, <<>>), ZipFile(TRUE, <<>>)}
    \cup (IF uploaded_zip # None /\ uploaded_zip.ok
             /\ Len(uploaded_zip.names) < MaxFiles
          THEN {ZipFile(TRUE, Append(uploaded_zip.names, n)) : n \in RunNames}
          ELSE {})

\* filenames: a few leading characters, a run of digits, a few trailing ones
Filenames ==
    {h \o d \o t : h \in SeqsUpTo({"a", "/"}, MaxHead),
                   d \in SeqsUpTo({"0", "1"}, MaxDigits),
                   t \in SeqsUpTo({"a", "/"}, MaxTail)}

\* cell values: missing, strings of digits and dashes, a few integers
CellValues ==
    {NaN, None}
    \cup {Str(s) : s \in SeqsUpTo({"0", "1", "-"}, MaxCellLen)}
    \cup {IntVal(n) : n \in {0, 1234567, 12345678, 0 - 12345678, 10000000,
                             123456789}}

ID10 == <<"1">> \o Rep("0", 7)
ID20 == <<"2">> \o Rep("0", 7)

\* names of archive entries / uploaded files
EntryNames ==
    {ID10 \o <<"_", "a">>, <<"d", "/">> \o ID20 \o <<"_", "b">>,
     <<"b", "a", "d">>, <<"d", "/">>, ID20, ID10 \o <<"/">>}

----------------------------------------------------------------------------
(* Actions of the page *)

FnIdle     == filename = <<>> /\ ship = Pending
CellIdle   == val = NaN /\ cleaned = Pending
ReaderIdle ==
    entry_names = <<>> /\ zip_shipments = Pending /\ files_shipments = Pending

PageInit ==
    /\ excel_file = None
    /\ mode = MULTI
    /\ uploaded_files = List(<<>>)
    /\ uploaded_zip = None
    /\ show_preview = TRUE
    /\ run = FALSE
    /\ message = None
    /\ valid_shipments = <<>>
    /\ invalid_rows = <<>>
    /\ folder_set = {}
    /\ result_df = <<>>
    /\ missing_df = <<>>
    /\ metrics = None
    /\ previews = <<>>
    /\ downloads = <<>>
    /\ readers_called = {}
    /\ runs_on_input = 0

Init == FnIdle /\ CellIdle /\ ReaderIdle /\ PageInit

\* line 136: a spreadsheet is uploaded or removed
UploadExcel ==
    /\ \E f \in ExcelFiles : excel_file' = f
    /\ NothingRendered
    /\ UNCHANGED <<mode, uploaded_files, uploaded_zip, show_preview>>
    /\ UNCHANGED <<fnVars, cellVars, readerVars>>

\* lines 139-159: the radio button; the uploader of the other mode is not
\* rendered and its variable is None
SelectMode ==
    /\ \E m \in {MULTI, ZIP} :
          /\ m # mode
          /\ mode' = m
          /\ uploaded_files' = IF m = MULTI THEN List(<<>>) ELSE None
    /\ uploaded_zip' = None
    /\ NothingRendered
    /\ UNCHANGED <<excel_file, show_preview>>
    /\ UNCHANGED <<fnVars, cellVars, readerVars>>

\* lines 148-153
UploadFiles ==
    /\ mode = MULTI
    /\ \E names \in FileSelections : uploaded_files' = List(names)
    /\ NothingRendered
    /\ UNCHANGED <<excel_file, mode, uploaded_zip, show_preview>>
    /\ UNCHANGED <<fnVars, cellVars, readerVars>>

\* lines 155-159
UploadZip ==
    /\ mode = ZIP
    /\ \E z \in ZipFiles : uploaded_zip' = z
    /\ NothingRendered
    /\ UNCHANGED <<excel_file, mode, uploaded_files, show_preview>>
    /\ UNCHANGED <<fnVars, cellVars, readerVars>>

\* lines 161-163
TogglePreview ==
    /\ show_preview' = ~show_preview
    /\ NothingRendered
    /\ UNCHANGED <<excel_file, mode, uploaded_files, uploaded_zip>>
    /\ UNCHANGED <<fnVars, cellVars, readerVars>>

\* lines 165-227: the button is pressed and the script runs with run = True
ClickRun ==
    /\ ~run_disabled
    /\ \E out \in {run_logic} :
           /\ run' = TRUE
           /\ message' = out.message
           /\ valid_shipments' = out.valid_shipments
           /\ invalid_rows' = out.invalid_rows
           /\ folder_set' = out.folder_set
           /\ result_df' = out.result_df
           /\ missing_df' = out.missing_df
           /\ metrics' = out.metrics
           /\ previews' = out.previews
           /\ downloads' = out.downloads
           /\ readers_called' = out.readers_called
    /\ runs_on_input' =
           IF runs_on_input < MaxRunsCounted THEN runs_on_input + 1
           ELSE runs_on_input
    /\ UNCHANGED <<widgetVars, fnVars, cellVars, readerVars>>

Next ==
    \/ UploadExcel
    \/ SelectMode
    \/ UploadFiles
    \/ UploadZip
    \/ TogglePreview
    \/ ClickRun

Spec == Init /\ [][Next]_vars

----------------------------------------------------------------------------
(* The helpers and the readers on their own *)

InitFilename ==
    /\ filename \in Filenames
    /\ ship = Pending
    /\ CellIdle /\ ReaderIdle /\ PageInit

\* ship = extract_shipment_from_filename(f.name), lines 78 and 95
ExtractShipment ==
    /\ ship = Pending
    /\ ship' = extract_shipment_from_filename(filename)
    /\ UNCHANGED <<filename, cellVars, readerVars, widgetVars, outputVars>>

NextFilename == ExtractShipment

SpecFilename == InitFilename /\ [][NextFilename]_vars

InitCell ==
    /\ val \in CellValues
    /\ cleaned = Pending
    /\ FnIdle /\ ReaderIdle /\ PageInit

\* one application of clean_excel_shipment by Series.map, line 63
CleanCell ==
    /\ cleaned = Pending
    /\ cleaned' = clean_excel_shipment(val)
    /\ UNCHANGED <<val, fnVars, readerVars, widgetVars, outputVars>>

NextCell == CleanCell

SpecCell == InitCell /\ [][NextCell]_vars

InitReaders ==
    /\ entry_names \in SeqsUpTo(EntryNames, MaxEntries)
    /\ zip_shipments = Pending
    /\ files_shipments = Pending
    /\ FnIdle /\ CellIdle /\ PageInit

\* the names as the entries of an archive, line 181
ReadAsZip ==
    /\ zip_shipments = Pending
    /\ zip_shipments' = Set(extract_from_zip(ZipFile(TRUE, entry_names)).shipments)
    /\ UNCHANGED <<entry_names, files_shipments>>
    /\ UNCHANGED <<fnVars, cellVars, widgetVars, outputVars>>

\* the names as the names of uploaded files, line 183
ReadAsFiles ==
    /\ files_shipments = Pending
    /\ files_shipments' = Set(extract_from_uploaded_files(entry_names))
    /\ UNCHANGED <<entry_names, zip_shipments>>
    /\ UNCHANGED <<fnVars, cellVars, widgetVars, outputVars>>

NextReaders == ReadAsZip \/ ReadAsFiles

SpecReaders == InitReaders /\ [][NextReaders]_vars

----------------------------------------------------------------------------
(* Properties *)

Range(f) == {f[i] : i \in DOMAIN f}

\* the final path component of a name: what follows its last "/"
FinalComponent(f) ==
    LET k == CHOOSE j \in 1..(Len(f) + 1) :
                 /\ j = 1 \/ f[j - 1] = "/"
                 /\ \A i \in j..Len(f) : f[i] # "/"
    IN  [i \in 1..(Len(f) - k + 1) |-> f[k + i - 1]]

\* how many decimal digits a string starts with
LeadingDigits(b) ==
    Cardinality({k \in 1..Len(b) : \A i \in 1..k : b[i] \in Digit})

FirstEight(b) == [i \in 1..8 |-> b[i]]

\* C1 as stated: extraction succeeds iff the final path component starts
\* with exactly 8 decimal digits (a ninth digit makes it fail), and then
\* returns those 8 characters.
C1_ExactlyEightDigits ==
    ship # Pending =>
        LET b == FinalComponent(filename)
        IN  /\ (ship # None) <=> (LeadingDigits(b) = 8)
            /\ ship # None => ship = Str(FirstEight(b))

\* C1 amended: extraction succeeds iff the final path component starts with
\* at least 8 decimal digits, and then returns its first 8 characters,
\* whatever follows them (further digits included); it fails with fewer
\* than 8 leading digits and when the digits are not at position 0.
C1_AtLeastEightDigits ==
    ship # Pending =>
        LET b == FinalComponent(filename)
        IN  /\ (ship # None) <=> (LeadingDigits(b) >= 8)
            /\ ship # None => ship = Str(FirstEight(b))

\* a name inside a folder whose base name starts with nine digits, extracted
C1_Witness ==
    /\ ship # Pending
    /\ ship # None
    /\ FinalComponent(filename) # filename
    /\ LeadingDigits(FinalComponent(filename)) = 9
    /\ Len(FinalComponent(filename)) > 9

DigitPositions(s) == {i \in 1..Len(s) : s[i] \in Digit}

\* the position of the k-th digit of s
KthDigit(s, k) ==
    CHOOSE p \in DigitPositions(s) :
        Cardinality({q \in DigitPositions(s) : q < p}) = k - 1

\* C2: cleaning a cell succeeds iff its string form holds exactly 8 digit
\* characters, wherever they stand, and then returns exactly those digits
\* in their order (leading zeros kept); a missing cell, an empty string and
\* any other number of digits fail.
C2_CleanCell ==
    cleaned # Pending =>
        IF val.tag \in {"nan", "None"} THEN cleaned = None
        ELSE LET s == py_str(val)
             IN  /\ (cleaned # None) <=> (Cardinality(DigitPositions(s)) = 8)
                 /\ s = <<>> => cleaned = None
                 /\ cleaned # None =>
                        /\ cleaned.tag = "str"
                        /\ Len(cleaned.s) = 8
                        /\ \A k \in 1..8 : cleaned.s[k] = s[KthDigit(s, k)]

\* a cell with a leading zero and a separator in the middle, cleaned
C2_Witness ==
    /\ cleaned # Pending
    /\ cleaned # None
    /\ val.tag = "str"
    /\ Len(val.s) = 9
    /\ val.s[1] = "0"
    /\ val.s[5] = "-"
    /\ cleaned.s[1] = "0"

Completed == run /\ message.kind = "success"

Ids(df) == [i \in 1..Len(df) |-> df[i].ShipmentNo]

FirstIndex(seq, x) ==
    CHOOSE i \in 1..Len(seq) : seq[i] = x /\ \A j \in 1..(i - 1) : seq[j] # x

\* int(text.replace(",", ""))
RECURSIVE parse_count(_)
parse_count(text) ==
    IF text = <<>> THEN 0
    ELSE LET c == text[Len(text)]
             front == parse_count(SubSeq(text, 1, Len(text) - 1))
         IN  IF c = "," THEN front
             ELSE 10 * front + (CHOOSE d \in 0..9 : DigitChar(d) = c)

\* C3: after a completed run the missing list holds exactly the expected
\* identifiers that are not observed, in expected order, each once, and the
\* three metrics are the sizes of the observed set, the expected list and
\* the missing list.
C3_MissingIsDifference ==
    Completed =>
        LET m == Ids(missing_df)
        IN  /\ Range(m) = {x \in Range(valid_shipments) : x \notin folder_set}
            /\ Range(m) \subseteq Range(valid_shipments)
            /\ Range(m) \cap folder_set = {}
            /\ \A i, j \in 1..Len(m) :
                   i < j => FirstIndex(valid_shipments, m[i])
                              < FirstIndex(valid_shipments, m[j])
            /\ parse_count(metrics.folder) = Cardinality(folder_set)
            /\ parse_count(metrics.excel) = Len(valid_shipments)
            /\ parse_count(metrics.missing) = Len(m)

\* expected 11111111, 22222222; observed 22222222, 33333333
C3_Witness ==
    /\ Completed
    /\ valid_shipments = <<ID1, ID2>>
    /\ folder_set = {ID2, ID3}
    /\ Ids(missing_df) = <<ID1>>
    /\ metrics = [folder |-> <<"2">>, excel |-> <<"2">>, missing |-> <<"1">>]

TableRead == run /\ excel_file.readable /\ excel_file.has_column

CleanedRow(r) == clean_excel_shipment(excel_file.cells[r])

ValidRows == {r \in 1..Len(excel_file.cells) : CleanedRow(r) # None}

FirstRowOf(x) ==
    CHOOSE r \in ValidRows :
        CleanedRow(r).s = x /\ \A q \in ValidRows : q < r => CleanedRow(q).s # x

\* C4: for a table with the column, the expected list has no duplicate, only
\* values that pass cell normalization, every identifier some row cleans to,
\* and lists them in the order of their first row.
C4_ExpectedIsUniqueFirstSeen ==
    TableRead =>
        LET v == valid_shipments
        IN  /\ \A i, j \in 1..Len(v) : i # j => v[i] # v[j]
            /\ \A i \in 1..Len(v) : clean_excel_shipment(Str(v[i])) = Str(v[i])
            /\ Range(v) = {CleanedRow(r).s : r \in ValidRows}
            /\ \A i, j \in 1..Len(v) : i < j => FirstRowOf(v[i]) < FirstRowOf(v[j])

\* rows 11111111, 22222222, 1-1111111 give the list 11111111, 22222222
C4_Witness ==
    /\ TableRead
    /\ excel_file.cells = <<Str(ID1), Str(ID2), Str(<<"1", "-">> \o Rep("1", 7))>>
    /\ valid_shipments = <<ID1, ID2>>

UnparsableExcel == ~excel_file.readable
MissingColumn   == excel_file.readable /\ ~excel_file.has_column
NoValidIdentifiers ==
    excel_file.readable /\ excel_file.has_column /\ ValidRows = {}
UnparsableZip ==
    /\ excel_file.readable /\ excel_file.has_column /\ ValidRows # {}
    /\ uploaded_zip # None
    /\ ~uploaded_zip.ok

\* C5: a run that meets a missing column, an undecodable spreadsheet or
\* archive, or an empty expected list shows a message and nothing else: no
\* result table, no metrics, no preview, neither download; every other run
\* completes with both downloads.
C5_AbortProducesNothing ==
    run =>
        /\ (UnparsableExcel \/ MissingColumn \/ NoValidIdentifiers \/ UnparsableZip)
               <=> message.kind \in {"error", "warning"}
        /\ message.kind \in {"error", "warning"} =>
               /\ downloads = <<>>
               /\ result_df = <<>>
               /\ missing_df = <<>>
               /\ metrics = None
               /\ previews = <<>>
        /\ message.kind \notin {"error", "warning"} =>
               /\ message.kind = "success"
               /\ Len(downloads) = 2
               /\ downloads[1].file_name = "missing_shipments.xlsx"
               /\ downloads[2].file_name = "shipment_presence_summary.xlsx"
               /\ Len(result_df) > 0

\* the latest abort: the spreadsheet gave identifiers, the archive is corrupt
C5_Witness ==
    /\ run
    /\ UnparsableZip
    /\ message = Msg("error", "Failed to read ZIP")
    /\ valid_shipments # <<>>
    /\ downloads = <<>>

\* C6: the reader goes on past a row whose cell fails: the invalid-rows
\* report holds exactly the rows whose cell fails normalization, in row
\* order, none of their values is in the expected list, and the rows that
\* pass, before or after a failing one, all reach the expected list.
C6_InvalidRowsCollected ==
    TableRead =>
        LET cells == excel_file.cells
            bad   == {r \in 1..Len(cells) : r \notin ValidRows}
        IN  /\ {e.index : e \in Range(invalid_rows)} = bad
            /\ Len(invalid_rows) = Cardinality(bad)
            /\ \A i \in 1..Len(invalid_rows) :
                   /\ invalid_rows[i].ShipmentNo = cells[invalid_rows[i].index]
                   /\ clean_excel_shipment(invalid_rows[i].ShipmentNo) = None
                   /\ invalid_rows[i].ShipmentNo.tag = "str" =>
                          invalid_rows[i].ShipmentNo.s \notin Range(valid_shipments)
                   /\ \A j \in 1..Len(invalid_rows) :
                          i < j => invalid_rows[i].index < invalid_rows[j].index
            /\ \A r \in ValidRows : CleanedRow(r).s \in Range(valid_shipments)

\* a failing row first, rows that pass after it, and the run completed
C6_Witness ==
    /\ Completed
    /\ Len(excel_file.cells) = 3
    /\ excel_file.cells[1] = Str(Rep("2", 7))
    /\ excel_file.cells[2] = Str(<<"1", "-">> \o Rep("1", 7))
    /\ excel_file.cells[3] = NaN
    /\ valid_shipments = <<ID1>>
    /\ Len(invalid_rows) = 2

FileReaders == {"extract_from_uploaded_files", "extract_from_zip"}

\* C7 as stated: every run invokes exactly one of the two file readers.
C7_ExactlyOneReaderEveryRun ==
    run => Cardinality(readers_called \cap FileReaders) = 1

\* C7 amended: no run invokes both file readers; a run invokes one of them
\* exactly when the tabular reader returned a non-empty expected list (a run
\* that stops before that invokes neither), and it is the archive reader iff
\* an archive was supplied.
C7_OneReaderOnceExcelIsRead ==
    run =>
        LET called == readers_called \cap FileReaders
            reached == excel_file.readable /\ excel_file.has_column
                         /\ ValidRows # {}
        IN  /\ Cardinality(called) <= 1
            /\ reached <=> Cardinality(called) = 1
            /\ reached =>
                   called = {IF uploaded_zip # None THEN "extract_from_zip"
                             ELSE "extract_from_uploaded_files"}

\* a completed run on an archive: the archive reader alone was invoked
C7_Witness ==
    /\ Completed
    /\ uploaded_zip # None
    /\ folder_set # {}
    /\ readers_called \cap FileReaders = {"extract_from_zip"}

\* the identifiers of a list of names, by the rule on base names
IdsOfNames(names) ==
    {FirstEight(FinalComponent(names[i])) :
        i \in {k \in 1..Len(names) : LeadingDigits(FinalComponent(names[k])) >= 8}}

\* C8: given the same names, the archive reader and the multi-file reader
\* return the same set: the identifiers extracted from the base names;
\* folders and names that fail extraction add nothing.
C8_ReadersAgree ==
    (zip_shipments # Pending /\ files_shipments # Pending) =>
        /\ zip_shipments = files_shipments
        /\ zip_shipments.items = IdsOfNames(entry_names)

\* 10000000_a, d/20000000_b, bad give 10000000 and 20000000 by both readers
C8_Witness ==
    /\ entry_names = <<ID10 \o <<"_", "a">>,
                       <<"d", "/">> \o ID20 \o <<"_", "b">>,
                       <<"b", "a", "d">>>>
    /\ zip_shipments = Set({ID10, ID20})
    /\ files_shipments = Set({ID10, ID20})

\* a before b in the lexical order of identifier strings
LexBefore(a, b) ==
    \E k \in 1..Len(b) :
        /\ \A i \in 1..(k - 1) : i <= Len(a) /\ a[i] = b[i]
        /\ \/ Len(a) = k - 1
           \/ /\ Len(a) >= k
              /\ (CHOOSE d \in 0..9 : DigitChar(d) = a[k])
                   < (CHOOSE d \in 0..9 : DigitChar(d) = b[k])

\* C9: the Summary workbook of a completed run has one row per expected
\* identifier, in expected order, flagged present iff the identifier is
\* observed, and lists every observed identifier once in ascending lexical
\* order.
C9_SummaryExport ==
    Completed =>
        LET summary == downloads[2].sheets[1]
            listing == downloads[2].sheets[2]
        IN  /\ summary.header = <<"Shipment No.", "Present">>
            /\ Len(summary.rows) = Len(valid_shipments)
            /\ \A i \in 1..Len(summary.rows) :
                   /\ summary.rows[i][1] = valid_shipments[i]
                   /\ summary.rows[i][2] <=> (valid_shipments[i] \in folder_set)
            /\ listing.header = <<"FolderShipments">>
            /\ {listing.rows[i][1] : i \in 1..Len(listing.rows)} = folder_set
            /\ \A i, j \in 1..Len(listing.rows) :
                   i < j => LexBefore(listing.rows[i][1], listing.rows[j][1])

\* two expected identifiers, one of them observed, two observed in all
C9_Witness ==
    /\ Completed
    /\ valid_shipments = <<ID2, ID1>>
    /\ uploaded_files = List(<<<<"d", "/">> \o ID3, ID2 \o <<"_", "a">>>>)
    /\ downloads[2].sheets[1].rows = <<<<ID2, TRUE>>, <<ID1, FALSE>>>>
    /\ downloads[2].sheets[2].rows = <<<<ID2>>, <<ID3>>>>

====
